---------------------------- MODULE Spec2Model ----------------------------
(***************************************************************************)
(* A model of rust/src/anf.rs: the GraphManager with its two arenas        *)
(* (graphs, all_nodes) and root set, the GraphPtr and ANFNodePtr handle    *)
(* operations, and ANFNodeInputIter.                                       *)
(*                                                                         *)
(* The arenas are generational_arena::Arena values.  anf.rs only uses      *)
(* Arena::new, Arena::insert and Arena::get_mut; the Arena* operators      *)
(* below model those three by the crate's slot/free-list/generation        *)
(* representation.  The crate reserves a fixed number of slots in          *)
(* Arena::new; the model starts from InitialCapacity slots so that the     *)
(* growth path of insert is taken within the bounds.                       *)
(***************************************************************************)
EXTENDS Integers, Sequences, FiniteSets, TLC

\* ------------------------------------------------------------- bounds
MaxGraphs == 2
MaxNodes == 3
MaxOperands == 2
InitialCapacity == 1
\* The node bound of the specifications that keep more history or take the
\* operations statement by statement.
SmallNodes == 2
MaxIters == 2
\* The width of usize, in bits.
UsizeBits == 2
\* The graph bound of the specification that iterates while it builds.
SnapshotGraphs == 1

Flags == {"f1", "f2"}
OneFlag == {"f1"}

\* ------------------------------------------------------------ Option<T>
None == [tag |-> "None"]
Some(x) == [tag |-> "Some", v |-> x]

Max(a, b) == IF a >= b THEN a ELSE b
Last(s) == s[Len(s)]
Range(s) == {s[i] : i \in DOMAIN s}
IsPrefix(s, t) == Len(s) <= Len(t) /\ \A i \in DOMAIN s : s[i] = t[i]

\* ------------------------------------------------- generational_arena
\* Index { index, generation }
Index(i, gen) == [index |-> i, generation |-> gen]

\* Entry::Free { next_free } and Entry::Occupied { generation, value }
Free(next) == [tag |-> "Free", next_free |-> next]
Occupied(gen, val) == [tag |-> "Occupied", generation |-> gen, value |-> val]

\* An off-by-one in the chain: the fresh entries are chained from the last
\* existing slot on, which is put back on the free list.
ArenaReserveOverlapping(a, additional) ==
    LET start == Len(a.items)
        end == start + additional
        fresh == [k \in 1..additional |->
                    IF start + k - 1 = end - 1
                    THEN Free(a.free_list_head)
                    ELSE Free(Some(start + k))]
    IN IF start = 0
       THEN [a EXCEPT !.items = fresh, !.free_list_head = Some(0)]
       ELSE [a EXCEPT !.items = [a.items EXCEPT ![start] = Free(Some(start))]
                                  \o fresh,
                      !.free_list_head = Some(start - 1)]

\* Arena::reserve: extend items by `additional` free entries chained in
\* front of the old free list.  items[i + 1] is the crate's items[i].
ArenaReserve(a, additional) ==
    LET start == Len(a.items)
        end == start + additional
        fresh == [k \in 1..additional |->
                    IF start + k - 1 = end - 1
                    THEN Free(a.free_list_head)
                    ELSE Free(Some(start + k))]
    IN [a EXCEPT !.items = a.items \o fresh, !.free_list_head = Some(start)]

\* Arena::with_capacity
ArenaWithCapacity(n) ==
    ArenaReserve([items |-> <<>>, generation |-> 0,
                  free_list_head |-> None, len |-> 0], Max(n, 1))

\* Arena::new
ArenaNew == ArenaWithCapacity(InitialCapacity)

\* Arena::try_insert with a free slot at the head of the free list.
ArenaTryInsert(a, val) ==
    LET i == a.free_list_head.v
    IN [arena |-> [a EXCEPT !.items[i + 1] = Occupied(a.generation, val),
                            !.free_list_head = a.items[i + 1].next_free,
                            !.len = a.len + 1],
        index |-> Index(i, a.generation)]

\* A plausible slip: the value goes into the most recently filled slot
\* whenever there is one, instead of the head of the free list.
ArenaInsertReusing(a, val) ==
    IF a.len > 0
    THEN [arena |-> [a EXCEPT !.items[a.len] = Occupied(a.generation, val)],
          index |-> Index(a.len - 1, a.generation)]
    ELSE ArenaTryInsert(a, val)

\* Arena::insert: try_insert, growing (doubling) on the slow path.
ArenaInsert(a, val) ==
    IF a.free_list_head = None
    THEN ArenaTryInsert(ArenaReserve(a, Len(a.items)), val)
    ELSE ArenaTryInsert(a, val)

\* Arena::get_mut: Some(value) iff the slot is occupied by that generation.
ArenaGet(a, idx) ==
    IF /\ idx.index < Len(a.items)
       /\ a.items[idx.index + 1].tag = "Occupied"
       /\ a.items[idx.index + 1].generation = idx.generation
    THEN Some(a.items[idx.index + 1].value)
    ELSE None

\* A write through the &mut returned by get_mut(idx).
ArenaPut(a, idx, val) ==
    [a EXCEPT !.items[idx.index + 1] = Occupied(idx.generation, val)]

\* The handles an arena holds a value for.
ArenaIndices(a) ==
    {Index(i - 1, a.items[i].generation) :
        i \in {j \in DOMAIN a.items : a.items[j].tag = "Occupied"}}

\* ------------------------------------------------------------- entities
\* Value::Graph(GraphPtr)
ValueGraph(g) == [tag |-> "Graph", graph |-> g]

\* struct Graph { parameters, return_, flags }
Graph(parameters, return_, flags) ==
    [parameters |-> parameters, return_ |-> return_, flags |-> flags]

\* enum ANFNodeType
Apply(graph, inps) == [tag |-> "Apply", graph |-> graph, inps |-> inps]
Parameter(graph) == [tag |-> "Parameter", graph |-> graph]
Constant(val) == [tag |-> "Constant", val |-> val]

\* struct ANFNode { node }
ANFNode(n) == [node |-> n]

\* The result of unwrap() on None.
Panic == [tag |-> "Panic"]


\* ---------------------------------------------------------------- state
VARIABLES
    graphs,        \* GraphManager.graphs: Arena<Graph>
    all_nodes,     \* GraphManager.all_nodes: Arena<ANFNode>
    roots,         \* GraphManager.roots: HashSet<ANFNodePtr>
    iters,         \* the ANFNodeInputIter values alive, each with its history
    overflow_checks, \* the build panics on integer overflow (debug profile)
    panic,         \* "none", or why the program aborted: "unwrap", "overflow"
    pc,            \* StepSpec: the statement the running operation is at
    frame,         \* StepSpec: the running operation's arguments and locals
    live,          \* StepSpec: the references into the arenas now in scope
    issuedGraphs,  \* history: the GraphPtr handles returned, in order
    issuedNodes,   \* history: [ptr, node, by] of every ANFNodePtr returned
    calls,         \* history, per graph: what add_parameter returned, the
                   \* last set_output argument, the set_flag arguments,
                   \* and (where kept) whether a set_output replaced an
                   \* earlier one and which flags were set again
    rootCalls      \* history, per node: the last of add_root / remove_root,
                   \* whether it was added again, and removed while a root

manager == <<graphs, all_nodes, roots>>
iterstate == <<iters, overflow_checks>>
stepstate == <<pc, frame, live>>
history == <<issuedGraphs, issuedNodes, calls, rootCalls>>
vars == <<manager, iterstate, panic, stepstate, history>>

\* The handles a caller can hold: those the manager has returned.
GraphHandles == Range(issuedGraphs)
NodeHandles == {e.ptr : e \in Range(issuedNodes)}
SeqUpTo(S, n) == UNION {[1..k -> S] : k \in 0..n}

\* --------------------------------------------------------- GraphManager
\* GraphManager::get_graph: get_mut(p), None where unwrap() panics.
get_graph(gs, p) == ArenaGet(gs, p)

\* GraphManager::get_node
get_node(an, p) == ArenaGet(an, p)

\* GraphManager::new_graph
new_graph(gs) ==
    LET r == ArenaInsert(gs, Graph(<<>>, None, {}))
    IN [graphs |-> r.arena, ptr |-> r.index]

\* A handle built from the arena's length after the insert.
alloc_apply_len_index(an, params, graph) ==
    LET r == ArenaInsert(an, ANFNode(Apply(graph, params)))
    IN [all_nodes |-> r.arena, ptr |-> Index(r.arena.len, r.index.generation)]

\* GraphManager::alloc_apply
alloc_apply(an, params, graph) ==
    LET r == ArenaInsert(an, ANFNode(Apply(graph, params)))
    IN [all_nodes |-> r.arena, ptr |-> r.index]

\* A copy-and-paste slip: the body of alloc_constant under alloc_param.
alloc_param_as_constant(an, graph) ==
    LET r == ArenaInsert(an, ANFNode(Constant(ValueGraph(graph))))
    IN [all_nodes |-> r.arena, ptr |-> r.index]

\* GraphManager::alloc_param
alloc_param(an, graph) ==
    LET r == ArenaInsert(an, ANFNode(Parameter(graph)))
    IN [all_nodes |-> r.arena, ptr |-> r.index]

\* GraphManager::alloc_constant
alloc_constant(an, val) ==
    LET r == ArenaInsert(an, ANFNode(Constant(val)))
    IN [all_nodes |-> r.arena, ptr |-> r.index]

\* ------------------------------------------------------------- GraphPtr
\* GraphPtr::get
GraphPtr_get(gs, self) == get_graph(gs, self)

\* GraphPtr::get_output
get_output(gs, self) ==
    LET g == GraphPtr_get(gs, self)
    IN IF g = None THEN Panic ELSE g.v.return_

\* The first writer wins: a return node already set is kept.
set_output_once(gs, self, out) ==
    LET g == ArenaGet(gs, self)
    IN IF g = None THEN Panic
       ELSE IF g.v.return_ # None THEN gs
       ELSE ArenaPut(gs, self, [g.v EXCEPT !.return_ = Some(out)])

\* GraphPtr::set_output: the new graphs arena.
set_output(gs, self, out) ==
    LET g == GraphPtr_get(gs, self)
    IN IF g = None THEN Panic
       ELSE ArenaPut(gs, self, [g.v EXCEPT !.return_ = Some(out)])

\* The new parameter put at the front of the list.
push_parameter_front(gs, self, newp) ==
    LET g == ArenaGet(gs, self)
    IN IF g = None THEN Panic
       ELSE ArenaPut(gs, self, [g.v EXCEPT !.parameters = <<newp>> \o @])

\* The list made anew from the new parameter.
push_parameter_alone(gs, self, newp) ==
    LET g == ArenaGet(gs, self)
    IN IF g = None THEN Panic
       ELSE ArenaPut(gs, self, [g.v EXCEPT !.parameters = <<newp>>])

\* GraphPtr::add_parameter, its second statement:
\* self.get().parameters.push(newp).  The new graphs arena.
push_parameter(gs, self, newp) ==
    LET g == GraphPtr_get(gs, self)
    IN IF g = None THEN Panic
       ELSE ArenaPut(gs, self, [g.v EXCEPT !.parameters = Append(@, newp)])

\* The new parameter appended by alloc_param and again by add_parameter.
add_parameter_twice(gs, an, self) ==
    LET a == alloc_param(an, self)
        once == push_parameter(gs, self, a.ptr)
        pushed == IF once = Panic THEN Panic
                  ELSE push_parameter(once, self, a.ptr)
    IN IF pushed = Panic
       THEN [all_nodes |-> a.all_nodes, graphs |-> gs, ret |-> Panic]
       ELSE [all_nodes |-> a.all_nodes, graphs |-> pushed, ret |-> a.ptr]

\* GraphPtr::add_parameter: alloc_param, then the push, then newp.
add_parameter(gs, an, self) ==
    LET a == alloc_param(an, self)
        pushed == push_parameter(gs, self, a.ptr)
    IN IF pushed = Panic
       THEN [all_nodes |-> a.all_nodes, graphs |-> gs, ret |-> Panic]
       ELSE [all_nodes |-> a.all_nodes, graphs |-> pushed, ret |-> a.ptr]

\* GraphPtr::constant
constant(an, self, val) == alloc_constant(an, val)

\* GraphPtr::apply
apply(an, self, inputs) == alloc_apply(an, inputs, self)

\* A flag that toggles: set_flag on a set flag clears it.
set_flag_toggle(gs, self, flag) ==
    LET g == ArenaGet(gs, self)
    IN IF g = None THEN Panic
       ELSE ArenaPut(gs, self,
              [g.v EXCEPT !.flags = IF flag \in @ THEN @ \ {flag}
                                    ELSE @ \cup {flag}])

\* The flag set on a graph built afresh, its other fields left at their
\* defaults.
set_flag_fresh(gs, self, flag) ==
    LET g == ArenaGet(gs, self)
    IN IF g = None THEN Panic
       ELSE ArenaPut(gs, self, Graph(<<>>, None, g.v.flags \cup {flag}))

\* GraphPtr::set_flag: the new graphs arena.
set_flag(gs, self, flag) ==
    LET g == GraphPtr_get(gs, self)
    IN IF g = None THEN Panic
       ELSE ArenaPut(gs, self, [g.v EXCEPT !.flags = @ \cup {flag}])

\* GraphPtr::has_flag
has_flag(gs, self, flag) ==
    LET g == GraphPtr_get(gs, self)
    IN IF g = None THEN Panic ELSE flag \in g.v.flags

\* ----------------------------------------------------------- ANFNodePtr
\* ANFNodePtr::get
ANFNodePtr_get(an, self) == get_node(an, self)

\* A match whose first arm takes every node that holds a graph handle.
value_of_any(an, self) ==
    LET n == ArenaGet(an, self)
    IN IF n = None THEN Panic
       ELSE IF n.v.node.tag = "Constant" THEN Some(n.v.node.val)
       ELSE Some(ValueGraph(n.v.node.graph))

\* ANFNodePtr::value
value(an, self) ==
    LET n == ANFNodePtr_get(an, self)
    IN IF n = None THEN Panic
       ELSE IF n.v.node.tag = "Constant" THEN Some(n.v.node.val) ELSE None

\* ANFNodePtr::is_apply
is_apply(an, self) ==
    LET n == ANFNodePtr_get(an, self)
    IN IF n = None THEN Panic ELSE n.v.node.tag = "Apply"

\* ANFNodePtr::is_parameter
is_parameter(an, self) ==
    LET n == ANFNodePtr_get(an, self)
    IN IF n = None THEN Panic ELSE n.v.node.tag = "Parameter"

\* A pattern that also matches Parameter.
is_constant_or_parameter(an, self) ==
    LET n == ArenaGet(an, self)
    IN IF n = None THEN Panic ELSE n.v.node.tag \in {"Constant", "Parameter"}

\* ANFNodePtr::is_constant
is_constant(an, self) ==
    LET n == ANFNodePtr_get(an, self)
    IN IF n = None THEN Panic ELSE n.v.node.tag = "Constant"

\* ANFNodePtr::is_constant_graph
is_constant_graph(an, self) ==
    LET n == ANFNodePtr_get(an, self)
    IN IF n = None THEN Panic
       ELSE n.v.node.tag = "Constant" /\ n.v.node.val.tag = "Graph"


\* ----------------------------------------------------- ANFNodeInputIter
\* usize arithmetic wraps at 2^UsizeBits.
UsizeModulus == 2 ^ UsizeBits

\* ANFNodeInputIter::new: a copy of an Apply's operands, nothing otherwise.
ANFNodeInputIter_new(node) ==
    [vals |-> IF node.node.tag = "Apply" THEN node.node.inps ELSE <<>>,
     p |-> 0]

\* ANFNodePtr::incoming
incoming(an, self) ==
    LET n == ANFNodePtr_get(an, self)
    IN IF n = None THEN Panic ELSE ANFNodeInputIter_new(n.v)

\* p incremented before vals.get(p) instead of after it.
ANFNodeInputIter_next_incr_first(it) ==
    [ret |-> IF it.p + 1 < Len(it.vals) THEN Some(it.vals[it.p + 2]) ELSE None,
     overflow |-> it.p + 1 >= UsizeModulus,
     iter |-> [it EXCEPT !.p = (it.p + 1) % UsizeModulus]]

\* Iterator::next for ANFNodeInputIter: vals.get(p), then p += 1.
ANFNodeInputIter_next(it) ==
    [ret |-> IF it.p < Len(it.vals) THEN Some(it.vals[it.p + 1]) ELSE None,
     overflow |-> it.p + 1 >= UsizeModulus,
     iter |-> [it EXCEPT !.p = (it.p + 1) % UsizeModulus]]

\* ------------------------------------------------------------- root set
\* The root-set operations the specification names over GraphManager.roots.
add_root(rs, node) == rs \cup {node}
remove_root(rs, node) == rs \ {node}
is_root(rs, node) == node \in rs

\* ----------------------------------------------------------------- Init
\* A root set that starts with the first slot's handle in it.
GraphManager_new_rooted ==
    [roots |-> {Index(0, 0)}, all_nodes |-> ArenaNew, graphs |-> ArenaNew]

\* GraphManager::new: empty arenas and an empty root set.
GraphManager_new ==
    [roots |-> {}, all_nodes |-> ArenaNew, graphs |-> ArenaNew]

InitManager ==
    /\ graphs = GraphManager_new.graphs
    /\ all_nodes = GraphManager_new.all_nodes
    /\ roots = GraphManager_new.roots
    /\ iters = <<>>
    /\ panic = "none"
    /\ pc = "idle"
    /\ frame = <<>>
    /\ live = <<>>
    /\ issuedGraphs = <<>>
    /\ issuedNodes = <<>>
    /\ calls = <<>>
    /\ rootCalls = <<>>

\* Without iterators the build profile plays no part.
Init == InitManager /\ overflow_checks = FALSE

\* With iterators the build is either profile.
IterInit == InitManager /\ overflow_checks \in BOOLEAN

NoCalls ==
    [add_parameter |-> <<>>, set_output |-> None, set_flag |-> {},
     overwrote |-> FALSE, set_again |-> {}]

\* The record kept of a node handle when it is returned: the handle, the
\* payload the caller asked for, and the manager function that made it.
Issued(ptr, node, by) == [ptr |-> ptr, node |-> ANFNode(node), by |-> by]

\* ------------------------------------------- actions: whole operations
NewGraph(maxGraphs) ==
    /\ panic = "none"
    /\ Len(issuedGraphs) < maxGraphs
    /\ LET r == new_graph(graphs)
       IN /\ graphs' = r.graphs
          /\ issuedGraphs' = Append(issuedGraphs, r.ptr)
          /\ calls' = (r.ptr :> NoCalls) @@ calls
    /\ UNCHANGED <<all_nodes, roots, iterstate, panic, stepstate,
                   issuedNodes, rootCalls>>

AllocApply(maxNodes) ==
    /\ panic = "none"
    /\ Len(issuedNodes) < maxNodes
    /\ \E g \in GraphHandles, L \in SeqUpTo(NodeHandles, MaxOperands) :
         LET r == alloc_apply(all_nodes, L, g)
         IN /\ all_nodes' = r.all_nodes
            /\ issuedNodes' = Append(issuedNodes,
                                Issued(r.ptr, Apply(g, L), "alloc_apply"))
    /\ UNCHANGED <<graphs, roots, iterstate, panic, stepstate,
                   issuedGraphs, calls, rootCalls>>

AllocParam(maxNodes) ==
    /\ panic = "none"
    /\ Len(issuedNodes) < maxNodes
    /\ \E g \in GraphHandles :
         LET r == alloc_param(all_nodes, g)
         IN /\ all_nodes' = r.all_nodes
            /\ issuedNodes' = Append(issuedNodes,
                                Issued(r.ptr, Parameter(g), "alloc_param"))
    /\ UNCHANGED <<graphs, roots, iterstate, panic, stepstate,
                   issuedGraphs, calls, rootCalls>>

AllocConstant(maxNodes) ==
    /\ panic = "none"
    /\ Len(issuedNodes) < maxNodes
    /\ \E h \in GraphHandles :
         LET r == alloc_constant(all_nodes, ValueGraph(h))
         IN /\ all_nodes' = r.all_nodes
            /\ issuedNodes' = Append(issuedNodes,
                                Issued(r.ptr, Constant(ValueGraph(h)),
                                       "alloc_constant"))
    /\ UNCHANGED <<graphs, roots, iterstate, panic, stepstate,
                   issuedGraphs, calls, rootCalls>>

AddParameter(maxNodes) ==
    /\ panic = "none"
    /\ Len(issuedNodes) < maxNodes
    /\ \E g \in GraphHandles :
         LET r == add_parameter(graphs, all_nodes, g)
         IN /\ all_nodes' = r.all_nodes
            /\ graphs' = r.graphs
            /\ panic' = IF r.ret = Panic THEN "unwrap" ELSE "none"
            /\ IF r.ret = Panic
               THEN UNCHANGED <<issuedNodes, calls>>
               ELSE /\ issuedNodes' = Append(issuedNodes,
                                Issued(r.ret, Parameter(g), "alloc_param"))
                    /\ calls' = [calls EXCEPT
                                   ![g].add_parameter = Append(@, r.ret)]
    /\ UNCHANGED <<roots, iterstate, stepstate, issuedGraphs, rootCalls>>

ConstantOp(maxNodes) ==
    /\ panic = "none"
    /\ Len(issuedNodes) < maxNodes
    /\ \E g \in GraphHandles, h \in GraphHandles :
         LET r == constant(all_nodes, g, ValueGraph(h))
         IN /\ all_nodes' = r.all_nodes
            /\ issuedNodes' = Append(issuedNodes,
                                Issued(r.ptr, Constant(ValueGraph(h)),
                                       "alloc_constant"))
    /\ UNCHANGED <<graphs, roots, iterstate, panic, stepstate,
                   issuedGraphs, calls, rootCalls>>

ApplyOp(maxNodes) ==
    /\ panic = "none"
    /\ Len(issuedNodes) < maxNodes
    /\ \E g \in GraphHandles, L \in SeqUpTo(NodeHandles, MaxOperands) :
         LET r == apply(all_nodes, g, L)
         IN /\ all_nodes' = r.all_nodes
            /\ issuedNodes' = Append(issuedNodes,
                                Issued(r.ptr, Apply(g, L), "alloc_apply"))
    /\ UNCHANGED <<graphs, roots, iterstate, panic, stepstate,
                   issuedGraphs, calls, rootCalls>>

\* keep: whether the history of repeated calls is kept.
SetOutput(keep) ==
    /\ panic = "none"
    /\ \E g \in GraphHandles, out \in NodeHandles :
         LET r == set_output(graphs, g, out)
         IN /\ panic' = IF r = Panic THEN "unwrap" ELSE "none"
            /\ IF r = Panic
               THEN UNCHANGED <<graphs, calls>>
               ELSE /\ graphs' = r
                    /\ calls' = [calls EXCEPT
                         ![g].set_output = Some(out),
                         ![g].overwrote =
                            @ \/ (keep /\ calls[g].set_output # None)]
    /\ UNCHANGED <<all_nodes, roots, iterstate, stepstate,
                   issuedGraphs, issuedNodes, rootCalls>>

SetFlag(flags, keep) ==
    /\ panic = "none"
    /\ \E g \in GraphHandles, flag \in flags :
         LET r == set_flag(graphs, g, flag)
         IN /\ panic' = IF r = Panic THEN "unwrap" ELSE "none"
            /\ IF r = Panic
               THEN UNCHANGED <<graphs, calls>>
               ELSE /\ graphs' = r
                    /\ calls' = [calls EXCEPT
                         ![g].set_flag = @ \cup {flag},
                         ![g].set_again =
                            IF keep /\ flag \in calls[g].set_flag
                            THEN @ \cup {flag} ELSE @]
    /\ UNCHANGED <<all_nodes, roots, iterstate, stepstate,
                   issuedGraphs, issuedNodes, rootCalls>>

\* What the history says of node n.
WasRoot(n) == n \in DOMAIN rootCalls /\ rootCalls[n].last = "add_root"
Readded(n) == n \in DOMAIN rootCalls /\ rootCalls[n].readded
Unrooted(n) == n \in DOMAIN rootCalls /\ rootCalls[n].unrooted

AddRoot ==
    /\ panic = "none"
    /\ \E n \in NodeHandles :
         /\ roots' = add_root(roots, n)
         /\ rootCalls' = (n :> [last |-> "add_root",
                                readded |-> WasRoot(n) \/ Readded(n),
                                unrooted |-> Unrooted(n)]) @@ rootCalls
    /\ UNCHANGED <<graphs, all_nodes, iterstate, panic, stepstate,
                   issuedGraphs, issuedNodes, calls>>

RemoveRoot ==
    /\ panic = "none"
    /\ \E n \in NodeHandles :
         /\ roots' = remove_root(roots, n)
         /\ rootCalls' = (n :> [last |-> "remove_root",
                                readded |-> Readded(n),
                                unrooted |-> WasRoot(n) \/ Unrooted(n)])
                            @@ rootCalls
    /\ UNCHANGED <<graphs, all_nodes, iterstate, panic, stepstate,
                   issuedGraphs, issuedNodes, calls>>

\* node.incoming(): the iterator, with its history: the node it was taken
\* from, how many nodes the manager had returned by then (where kept), what
\* it has yielded up to its first None, and whether it has yielded after
\* that.
Incoming(keep) ==
    /\ panic = "none"
    /\ Len(iters) < MaxIters
    /\ \E n \in NodeHandles :
         LET r == incoming(all_nodes, n)
         IN /\ panic' = IF r = Panic THEN "unwrap" ELSE "none"
            /\ iters' = IF r = Panic THEN iters
                        ELSE Append(iters, [it |-> r, node |-> n,
                                            born |-> IF keep
                                                     THEN Len(issuedNodes)
                                                     ELSE 0,
                                            out |-> <<>>, ended |-> FALSE,
                                            late |-> FALSE])
    /\ UNCHANGED <<manager, overflow_checks, stepstate, history>>

\* One position for all the iterators of a node: next() on one of them
\* moves them all.
IterNextSharedPosition ==
    /\ panic = "none"
    /\ \E i \in DOMAIN iters :
         LET r == ANFNodeInputIter_next(iters[i].it)
         IN IF r.overflow /\ overflow_checks
            THEN panic' = "overflow" /\ UNCHANGED iters
            ELSE /\ panic' = "none"
                 /\ iters' = [k \in DOMAIN iters |->
                      IF k = i
                      THEN [it |-> r.iter,
                            node |-> iters[k].node,
                            born |-> iters[k].born,
                            out |-> IF ~iters[k].ended /\ r.ret # None
                                    THEN Append(iters[k].out, r.ret.v)
                                    ELSE iters[k].out,
                            ended |-> iters[k].ended \/ r.ret = None,
                            late |-> iters[k].late
                                       \/ (iters[k].ended /\ r.ret # None)]
                      ELSE IF iters[k].node = iters[i].node
                      THEN [iters[k] EXCEPT !.it.p = r.iter.p]
                      ELSE iters[k]]
    /\ UNCHANGED <<manager, overflow_checks, stepstate, history>>

\* iterator.next()
IterNext ==
    /\ panic = "none"
    /\ \E i \in DOMAIN iters :
         LET r == ANFNodeInputIter_next(iters[i].it)
         IN IF r.overflow /\ overflow_checks
            THEN panic' = "overflow" /\ UNCHANGED iters
            ELSE /\ panic' = "none"
                 /\ iters' = [iters EXCEPT ![i] =
                      [it |-> r.iter,
                       node |-> @.node,
                       born |-> @.born,
                       out |-> IF ~@.ended /\ r.ret # None
                               THEN Append(@.out, r.ret.v) ELSE @.out,
                       ended |-> @.ended \/ r.ret = None,
                       late |-> @.late \/ (@.ended /\ r.ret # None)]]
    /\ UNCHANGED <<manager, overflow_checks, stepstate, history>>

\* ------------------------------------------------------- specifications
\* The manager and the graph handles' operations.
Next ==
    \/ NewGraph(MaxGraphs)
    \/ AllocApply(MaxNodes)
    \/ AllocParam(MaxNodes)
    \/ AllocConstant(MaxNodes)
    \/ AddParameter(MaxNodes)
    \/ ConstantOp(MaxNodes)
    \/ ApplyOp(MaxNodes)
    \/ SetOutput(FALSE)
    \/ SetFlag(OneFlag, FALSE)

Spec == Init /\ [][Next]_vars

\* Building graphs and iterating over nodes' operands.
IterSpecNext ==
    \/ NewGraph(MaxGraphs)
    \/ AddParameter(MaxNodes)
    \/ ConstantOp(MaxNodes)
    \/ ApplyOp(MaxNodes)
    \/ Incoming(FALSE)
    \/ IterNext

IterSpec == IterInit /\ [][IterSpecNext]_vars

\* Iterating while the graph is built and written to.
SnapshotNext ==
    \/ NewGraph(SnapshotGraphs)
    \/ AddParameter(MaxNodes)
    \/ ApplyOp(MaxNodes)
    \/ SetOutput(FALSE)
    \/ SetFlag(OneFlag, FALSE)
    \/ Incoming(TRUE)
    \/ IterNext

SnapshotSpec == IterInit /\ [][SnapshotNext]_vars

\* The graph handles' operations, with the history of repeated calls.
GraphNext ==
    \/ NewGraph(MaxGraphs)
    \/ AddParameter(SmallNodes)
    \/ ConstantOp(SmallNodes)
    \/ ApplyOp(SmallNodes)
    \/ SetOutput(TRUE)
    \/ SetFlag(Flags, TRUE)

GraphSpec == Init /\ [][GraphNext]_vars

\* Allocation and the root set.
RootNext ==
    \/ NewGraph(MaxGraphs)
    \/ AllocApply(SmallNodes)
    \/ AllocParam(SmallNodes)
    \/ AllocConstant(SmallNodes)
    \/ AddRoot
    \/ RemoveRoot

RootSpec == Init /\ [][RootNext]_vars

\* ------------------------------------ actions: statement by statement
\* StepSpec takes every public operation one statement at a time.  live
\* holds the references into the arenas that are in scope: the &mut Arena
\* of an allocation (of = "arena") and the &mut Graph / &mut ANFNode that
\* get_graph / get_node return (of = the handle).
ArenaRef(arena) == [arena |-> arena, of |-> "arena"]
SlotRef(arena, p) == [arena |-> arena, of |-> p]

\* A reference that outlives the block it was taken in.
keep_ref(refs) == refs

\* The end of the block or statement that took the last reference.
drop_ref(refs) == SubSeq(refs, 1, Len(refs) - 1)

Frame(op, self, arg) == [op |-> op, self |-> self, arg |-> arg, ret |-> None]

Call(first, f) ==
    /\ panic = "none"
    /\ pc = "idle"
    /\ pc' = first
    /\ frame' = f
    /\ UNCHANGED <<manager, iterstate, panic, live, history>>

\* Back to the caller, with nothing of the operation left but its result.
Return == pc' = "idle" /\ frame' = <<>>

CallNewGraph ==
    /\ Len(issuedGraphs) < MaxGraphs
    /\ Call("borrow", Frame("new_graph", None, None))

CallAllocApply ==
    /\ Len(issuedNodes) < SmallNodes
    /\ \E g \in GraphHandles, L \in SeqUpTo(NodeHandles, MaxOperands) :
         Call("borrow", Frame("alloc_apply", g, L))

CallAllocParam ==
    /\ Len(issuedNodes) < SmallNodes
    /\ \E g \in GraphHandles : Call("borrow", Frame("alloc_param", g, None))

CallAllocConstant ==
    /\ Len(issuedNodes) < SmallNodes
    /\ \E h \in GraphHandles :
         Call("borrow", Frame("alloc_constant", None, ValueGraph(h)))

CallAddParameter ==
    /\ Len(issuedNodes) < SmallNodes
    /\ \E g \in GraphHandles : Call("borrow", Frame("add_parameter", g, None))

CallConstant ==
    /\ Len(issuedNodes) < SmallNodes
    /\ \E g \in GraphHandles, h \in GraphHandles :
         Call("borrow", Frame("constant", g, ValueGraph(h)))

CallApply ==
    /\ Len(issuedNodes) < SmallNodes
    /\ \E g \in GraphHandles, L \in SeqUpTo(NodeHandles, MaxOperands) :
         Call("borrow", Frame("apply", g, L))

CallGetOutput ==
    \E g \in GraphHandles : Call("get_graph", Frame("get_output", g, None))

CallSetOutput ==
    \E g \in GraphHandles, out \in NodeHandles :
        Call("get_graph", Frame("set_output", g, out))

CallSetFlag ==
    \E g \in GraphHandles, flag \in OneFlag :
        Call("get_graph", Frame("set_flag", g, flag))

CallHasFlag ==
    \E g \in GraphHandles, flag \in OneFlag :
        Call("get_graph", Frame("has_flag", g, flag))

CallIncoming ==
    \E n \in NodeHandles : Call("get_node", Frame("incoming", n, None))

CallValue ==
    \E n \in NodeHandles : Call("get_node", Frame("value", n, None))

CallKind ==
    \E n \in NodeHandles,
       op \in {"is_apply", "is_parameter", "is_constant", "is_constant_graph"} :
        Call("get_node", Frame(op, n, None))

\* The arena an allocation inserts into.
AllocArena(op) == IF op = "new_graph" THEN "graphs" ELSE "all_nodes"

\* let gs / an = unsafe { &mut *self.<arena>.as_ptr() };
StepBorrow ==
    /\ pc = "borrow"
    /\ live' = Append(live, ArenaRef(AllocArena(frame.op)))
    /\ pc' = "insert"
    /\ UNCHANGED <<manager, iterstate, panic, frame, history>>

\* let g / a = gs / an.insert(...);
StepInsert ==
    /\ pc = "insert"
    /\ IF frame.op = "new_graph"
       THEN LET r == new_graph(graphs)
            IN /\ graphs' = r.graphs
               /\ frame' = [frame EXCEPT !.ret = r.ptr]
               /\ UNCHANGED all_nodes
       ELSE LET r == CASE frame.op \in {"alloc_apply", "apply"} ->
                            alloc_apply(all_nodes, frame.arg, frame.self)
                      [] frame.op \in {"alloc_param", "add_parameter"} ->
                            alloc_param(all_nodes, frame.self)
                      [] frame.op \in {"alloc_constant", "constant"} ->
                            alloc_constant(all_nodes, frame.arg)
            IN /\ all_nodes' = r.all_nodes
               /\ frame' = [frame EXCEPT !.ret = r.ptr]
               /\ UNCHANGED graphs
    /\ pc' = "alloc_return"
    /\ UNCHANGED <<roots, iterstate, panic, live, history>>

\* GraphPtr / ANFNodePtr { p: g / a, manager: self }: the allocation returns
\* and its arena reference goes out of scope.  add_parameter goes on.
StepAllocReturn ==
    /\ pc = "alloc_return"
    /\ live' = drop_ref(live)
    /\ IF frame.op = "add_parameter"
       THEN /\ pc' = "get_graph"
            /\ frame' = frame
            /\ UNCHANGED history
       ELSE /\ Return
            /\ IF frame.op = "new_graph"
               THEN /\ issuedGraphs' = Append(issuedGraphs, frame.ret)
                    /\ calls' = (frame.ret :> NoCalls) @@ calls
                    /\ UNCHANGED <<issuedNodes, rootCalls>>
               ELSE /\ issuedNodes' = Append(issuedNodes,
                          CASE frame.op \in {"alloc_apply", "apply"} ->
                                 Issued(frame.ret,
                                        Apply(frame.self, frame.arg),
                                        "alloc_apply")
                            [] frame.op = "alloc_param" ->
                                 Issued(frame.ret, Parameter(frame.self),
                                        "alloc_param")
                            [] OTHER ->
                                 Issued(frame.ret, Constant(frame.arg),
                                        "alloc_constant"))
                    /\ UNCHANGED <<issuedGraphs, calls, rootCalls>>
    /\ UNCHANGED <<manager, iterstate, panic>>

\* self.get(): GraphManager::get_graph(self.p)
StepGetGraph ==
    /\ pc = "get_graph"
    /\ IF get_graph(graphs, frame.self) = None
       THEN panic' = "unwrap" /\ UNCHANGED <<pc, live>>
       ELSE /\ live' = Append(live, SlotRef("graphs", frame.self))
            /\ pc' = "use_graph"
            /\ UNCHANGED panic
    /\ UNCHANGED <<manager, iterstate, frame, history>>

\* The rest of the statement that called self.get(), to the end of its
\* unsafe block.
StepUseGraph ==
    /\ pc = "use_graph"
    /\ live' = drop_ref(live)
    /\ Return
    /\ CASE frame.op = "set_output" ->
              /\ graphs' = set_output(graphs, frame.self, frame.arg)
              /\ calls' = [calls EXCEPT
                             ![frame.self].set_output = Some(frame.arg)]
              /\ UNCHANGED issuedNodes
         [] frame.op = "set_flag" ->
              /\ graphs' = set_flag(graphs, frame.self, frame.arg)
              /\ calls' = [calls EXCEPT
                             ![frame.self].set_flag = @ \cup {frame.arg}]
              /\ UNCHANGED issuedNodes
         [] frame.op = "add_parameter" ->
              /\ graphs' = push_parameter(graphs, frame.self, frame.ret)
              /\ calls' = [calls EXCEPT
                             ![frame.self].add_parameter = Append(@, frame.ret)]
              /\ issuedNodes' = Append(issuedNodes,
                                  Issued(frame.ret, Parameter(frame.self),
                                         "alloc_param"))
         [] OTHER -> UNCHANGED <<graphs, calls, issuedNodes>>
    /\ UNCHANGED <<all_nodes, roots, iterstate, panic,
                   issuedGraphs, rootCalls>>

\* self.get(): GraphManager::get_node(self.p)
StepGetNode ==
    /\ pc = "get_node"
    /\ IF get_node(all_nodes, frame.self) = None
       THEN panic' = "unwrap" /\ UNCHANGED <<pc, live>>
       ELSE /\ live' = Append(live, SlotRef("all_nodes", frame.self))
            /\ pc' = "use_node"
            /\ UNCHANGED panic
    /\ UNCHANGED <<manager, iterstate, frame, history>>

\* The rest of the body that called self.get(): the iterator is built (and
\* here dropped by the caller), the value copied or the kind matched, and
\* the reference goes out of scope.
StepUseNode ==
    /\ pc = "use_node"
    /\ live' = drop_ref(live)
    /\ Return
    /\ UNCHANGED <<manager, iterstate, panic, history>>

StepNext ==
    \/ CallNewGraph
    \/ CallAllocApply
    \/ CallAllocParam
    \/ CallAllocConstant
    \/ CallAddParameter
    \/ CallConstant
    \/ CallApply
    \/ CallGetOutput
    \/ CallSetOutput
    \/ CallSetFlag
    \/ CallHasFlag
    \/ CallIncoming
    \/ CallValue
    \/ CallKind
    \/ StepBorrow
    \/ StepInsert
    \/ StepAllocReturn
    \/ StepGetGraph
    \/ StepUseGraph
    \/ StepGetNode
    \/ StepUseNode

StepSpec == Init /\ [][StepNext]_vars

\* --------------------------------------------------------------- claims
\* What a graph handle dereferences to, as the history of the calls made
\* on that handle determines it.
GraphOf(c) == Graph(c.add_parameter, c.set_output, c.set_flag)

\* C1  Handle stability: every node handle ever returned dereferences to
\* the payload (kind, owner, operands, value) it was allocated with, and
\* every graph handle to the graph the calls on it were made on, whatever
\* was allocated since; no two allocations returned the same handle.
HandleStability ==
    /\ \A i \in DOMAIN issuedNodes :
         /\ get_node(all_nodes, issuedNodes[i].ptr) = Some(issuedNodes[i].node)
         /\ \A j \in DOMAIN issuedNodes :
              issuedNodes[i].ptr = issuedNodes[j].ptr => i = j
    /\ \A i \in DOMAIN issuedGraphs :
         /\ get_graph(graphs, issuedGraphs[i])
              = Some(GraphOf(calls[issuedGraphs[i]]))
         /\ \A j \in DOMAIN issuedGraphs :
              issuedGraphs[i] = issuedGraphs[j] => i = j

\* C1 witness: both arenas have grown past their initial capacity since
\* the first handles were returned, the node arena holds one node of each
\* kind, and the first graph has been written to.
HandleStabilityWitness ==
    /\ Len(issuedGraphs) = MaxGraphs
    /\ Len(graphs.items) > InitialCapacity
    /\ Len(all_nodes.items) > InitialCapacity
    /\ Len(issuedNodes) >= 3
    /\ issuedNodes[1].by = "alloc_param"
    /\ issuedNodes[2].by = "alloc_constant"
    /\ issuedNodes[3].by = "alloc_apply"
    /\ issuedNodes[3].node.node.inps = <<issuedNodes[2].ptr, issuedNodes[1].ptr>>
    /\ calls[issuedGraphs[1]].set_output = Some(issuedNodes[3].ptr)

\* C2 as stated: the node GraphManager::alloc_param has just returned is
\* the last element of its graph's parameter list.
AllocParamAppends ==
    issuedNodes # <<>> /\ Last(issuedNodes).by = "alloc_param" =>
        LET e == Last(issuedNodes)
            g == get_graph(graphs, e.node.node.graph).v
        IN g.parameters # <<>> /\ Last(g.parameters) = e.ptr

\* C2 amended: alloc_param allocates a Parameter owned by the graph and
\* puts it in no parameter list; a handle is in a graph's list exactly when
\* GraphPtr::add_parameter on that graph returned it, and the one it has
\* just returned is the list's last element.
AllocParamOnlyAllocates ==
    \A i \in DOMAIN issuedNodes :
        LET e == issuedNodes[i]
            owner == e.node.node.graph
        IN e.by = "alloc_param" =>
             /\ get_node(all_nodes, e.ptr) = Some(ANFNode(Parameter(owner)))
             /\ \A h \in GraphHandles :
                  e.ptr \in Range(get_graph(graphs, h).v.parameters)
                    <=> h = owner /\ e.ptr \in Range(calls[h].add_parameter)
             /\ i = Len(issuedNodes) /\ e.ptr \in Range(calls[owner].add_parameter)
                  => Last(get_graph(graphs, owner).v.parameters) = e.ptr

\* C2 witness: a parameter made by alloc_param alone beside one made by
\* add_parameter, both owned by the same graph.
AllocParamWitness ==
    \E i, j \in DOMAIN issuedNodes, g \in GraphHandles :
        /\ i < j
        /\ issuedNodes[i].node = ANFNode(Parameter(g))
        /\ issuedNodes[j].node = ANFNode(Parameter(g))
        /\ get_graph(graphs, g).v.parameters = <<issuedNodes[i].ptr>>

\* C3  Aliasing discipline: at every statement of every operation an arena
\* has at most one reference into it in scope, and an insert into an arena
\* runs with no reference from get_graph / get_node into that arena alive.
LiveIn(arena) == {i \in DOMAIN live : live[i].arena = arena}

AliasingDiscipline ==
    \A arena \in {"graphs", "all_nodes"} :
        /\ Cardinality(LiveIn(arena)) <= 1
        /\ pc = "insert" /\ AllocArena(frame.op) = arena
             => \A i \in LiveIn(arena) : live[i].of = "arena"

\* C3 witness: add_parameter holds its graph's reference, after its node
\* was inserted, in a manager that already holds nodes.
AliasingWitness ==
    /\ pc = "use_graph"
    /\ frame.op = "add_parameter"
    /\ live = <<SlotRef("graphs", frame.self)>>
    /\ get_node(all_nodes, frame.ret) # None
    /\ issuedNodes # <<>>

\* The operand list a node was allocated with: L for apply(L), none for a
\* Parameter or a Constant.
IssuedAt(ptr) == CHOOSE e \in Range(issuedNodes) : e.ptr = ptr
OperandsGiven(ptr) ==
    IF IssuedAt(ptr).by = "alloc_apply"
    THEN IssuedAt(ptr).node.node.inps ELSE <<>>

\* C4  Apply operand fidelity: every iterator incoming() returned has
\* yielded, up to its first None, a prefix of the operand list its node was
\* created with, and the whole list once it has returned None; it yields
\* nothing for a Parameter or a Constant.
OperandFidelity ==
    \A i \in DOMAIN iters :
        /\ IsPrefix(iters[i].out, OperandsGiven(iters[i].node))
        /\ iters[i].ended => iters[i].out = OperandsGiven(iters[i].node)

\* C4 witness: two iterators over the same Apply, both run to their end,
\* whose operands are the two earlier nodes in the reverse of their
\* allocation order.
OperandFidelityWitness ==
    /\ Len(issuedNodes) = 3
    /\ Len(iters) = 2
    /\ \A i \in DOMAIN iters :
         /\ iters[i].node = issuedNodes[3].ptr
         /\ iters[i].ended
         /\ iters[i].out = <<issuedNodes[2].ptr, issuedNodes[1].ptr>>

\* C5  Parameter order: every graph's parameter list is the sequence of the
\* handles add_parameter returned on that graph, in call order.
ParameterOrder ==
    \A g \in GraphHandles :
        get_graph(graphs, g).v.parameters = calls[g].add_parameter

\* C5 witness: add_parameter twice on the first graph with an add_parameter
\* on the second graph and a set_output in between.
ParameterOrderWitness ==
    /\ Len(issuedGraphs) = 2
    /\ Len(issuedNodes) = 3
    /\ calls[issuedGraphs[1]].add_parameter
         = <<issuedNodes[1].ptr, issuedNodes[3].ptr>>
    /\ calls[issuedGraphs[2]].add_parameter = <<issuedNodes[2].ptr>>
    /\ calls[issuedGraphs[1]].set_output = Some(issuedNodes[2].ptr)

\* C6  Last writer wins: get_output() of every graph is None until the
\* first set_output on it and then the argument of the latest one.
LastWriterWins ==
    \A g \in GraphHandles : get_output(graphs, g) = calls[g].set_output

\* C6 witness: a graph whose return node was replaced by a later
\* set_output, a second graph with another return node, and a flag and a
\* parameter set on the first in between.
LastWriterWitness ==
    \E g, h \in GraphHandles :
        /\ calls[g].overwrote
        /\ calls[g].set_output # None
        /\ calls[h].set_output # None
        /\ calls[h].set_output # calls[g].set_output
        /\ calls[g].set_flag # {}
        /\ calls[g].add_parameter # <<>>

\* C7  Root membership: a node is a root exactly when the last of add_root
\* and remove_root called on it was add_root; never, if neither was.
RootMembership ==
    /\ \A n \in NodeHandles : is_root(roots, n) <=> WasRoot(n)
    /\ roots \subseteq NodeHandles

\* C7 witness: one node added twice and a root, another added, then
\* removed, and no root.
RootMembershipWitness ==
    \E n, m \in NodeHandles :
        /\ Readded(n) /\ is_root(roots, n)
        /\ Unrooted(m) /\ ~is_root(roots, m)

\* C8  Flags are a set: has_flag(f) on a graph is true exactly when
\* set_flag(f) was called on it, however often, and the graph's flags are
\* exactly the flags so set.
FlagsAreASet ==
    \A g \in GraphHandles :
        /\ get_graph(graphs, g).v.flags = calls[g].set_flag
        /\ \A f \in Flags : has_flag(graphs, g, f) = (f \in calls[g].set_flag)

\* C8 witness: a graph with one flag set twice and the other flag never, and
\* a second graph with the other flag only.
FlagsWitness ==
    \E g, h \in GraphHandles :
        /\ "f1" \in calls[g].set_again
        /\ has_flag(graphs, g, "f1") /\ ~has_flag(graphs, g, "f2")
        /\ has_flag(graphs, h, "f2") /\ ~has_flag(graphs, h, "f1")

\* The handles stored inside the entities of the two arenas.
StoredNodeHandles ==
    UNION {Range(get_graph(graphs, h).v.parameters)
             \cup (IF get_graph(graphs, h).v.return_ = None THEN {}
                   ELSE {get_graph(graphs, h).v.return_.v}) :
           h \in ArenaIndices(graphs)}
      \cup UNION {IF get_node(all_nodes, n).v.node.tag = "Apply"
                  THEN Range(get_node(all_nodes, n).v.node.inps) ELSE {} :
                  n \in ArenaIndices(all_nodes)}

StoredGraphHandles ==
    {IF get_node(all_nodes, n).v.node.tag = "Constant"
     THEN get_node(all_nodes, n).v.node.val.graph
     ELSE get_node(all_nodes, n).v.node.graph : n \in ArenaIndices(all_nodes)}

\* C9  Every handle is dereferenceable: no operation has panicked in
\* unwrap(), and get_graph / get_node return Some for every handle the
\* manager has returned and every handle stored in a graph or a node.
Dereferenceable ==
    /\ panic # "unwrap"
    /\ \A h \in GraphHandles \cup StoredGraphHandles :
         get_graph(graphs, h) # None
    /\ \A n \in NodeHandles \cup StoredNodeHandles :
         get_node(all_nodes, n) # None

\* C9 witness: handles stored in every place: a parameter list, a return
\* slot, an Apply's owner and operands, a Parameter's owner, a Constant's
\* graph, with both arenas grown.
DereferenceableWitness ==
    \E g, h \in GraphHandles, a, c, q \in NodeHandles :
        /\ g # h
        /\ get_graph(graphs, g).v.parameters = <<q>>
        /\ get_graph(graphs, g).v.return_ = Some(a)
        /\ get_node(all_nodes, a) = Some(ANFNode(Apply(g, <<c, q>>)))
        /\ get_node(all_nodes, c) = Some(ANFNode(Constant(ValueGraph(h))))

\* C10  Kind exclusivity: of is_apply, is_parameter and is_constant exactly
\* one is true of every node, the one of the function that allocated it.
KindExclusivity ==
    \A i \in DOMAIN issuedNodes :
        LET n == issuedNodes[i].ptr
            kinds == <<is_apply(all_nodes, n), is_parameter(all_nodes, n),
                       is_constant(all_nodes, n)>>
        IN /\ Cardinality({k \in 1..3 : kinds[k] = TRUE}) = 1
           /\ kinds[1] = (issuedNodes[i].by = "alloc_apply")
           /\ kinds[2] = (issuedNodes[i].by = "alloc_param")
           /\ kinds[3] = (issuedNodes[i].by = "alloc_constant")

\* C10 witness: a node of each kind, allocated Apply first.
KindExclusivityWitness ==
    /\ Len(issuedNodes) = 3
    /\ is_apply(all_nodes, issuedNodes[1].ptr) = TRUE
    /\ is_constant(all_nodes, issuedNodes[2].ptr) = TRUE
    /\ is_parameter(all_nodes, issuedNodes[3].ptr) = TRUE

\* C11  Constant round-trip: for every node c that constant(v) returned,
\* value() is Some(v) with the graph handle given, is_constant and
\* is_constant_graph are true, is_apply and is_parameter false; value() of
\* a Parameter or an Apply is None; and the handle an iterator yields first
\* for an Apply whose operand 0 is such a constant reads the same way.
ConstantRoundTrip ==
    /\ \A i \in DOMAIN issuedNodes :
         LET e == issuedNodes[i]
         IN IF e.by = "alloc_constant"
            THEN /\ value(all_nodes, e.ptr) = Some(e.node.node.val)
                 /\ is_constant(all_nodes, e.ptr) = TRUE
                 /\ is_constant_graph(all_nodes, e.ptr) = TRUE
                 /\ is_apply(all_nodes, e.ptr) = FALSE
                 /\ is_parameter(all_nodes, e.ptr) = FALSE
            ELSE value(all_nodes, e.ptr) = None
    /\ \A i \in DOMAIN iters :
         iters[i].out # <<>> =>
           LET given == IssuedAt(OperandsGiven(iters[i].node)[1])
               c == iters[i].out[1]
           IN given.by = "alloc_constant" =>
                /\ value(all_nodes, c) = Some(given.node.node.val)
                /\ is_constant(all_nodes, c) = TRUE
                /\ is_constant_graph(all_nodes, c) = TRUE
                /\ is_apply(all_nodes, c) = FALSE
                /\ is_parameter(all_nodes, c) = FALSE

\* C11 witness: with one graph g only, c = g.constant(Value::Graph(g)), a
\* Parameter and an Apply of <<c, parameter>>, and an iterator over the
\* Apply that has yielded c.
ConstantRoundTripWitness ==
    /\ Len(issuedGraphs) = 1
    /\ Len(issuedNodes) = 3
    /\ issuedNodes[1].node = ANFNode(Constant(ValueGraph(issuedGraphs[1])))
    /\ issuedNodes[2].by = "alloc_param"
    /\ issuedNodes[3].node.node.tag = "Apply"
    /\ issuedNodes[3].node.node.inps = <<issuedNodes[1].ptr, issuedNodes[2].ptr>>
    /\ \E i \in DOMAIN iters :
         /\ iters[i].node = issuedNodes[3].ptr
         /\ iters[i].out = <<issuedNodes[1].ptr>>
         /\ value(all_nodes, iters[i].out[1]) = Some(ValueGraph(issuedGraphs[1]))

\* C12  The parameter list is append-only: in every step, of every graph
\* the parameter list before the step is a prefix of the list after it, and
\* the list is longer by at most one element.
ParametersAppendOnly ==
    [][\A g \in ArenaIndices(graphs) :
         LET before == get_graph(graphs, g).v.parameters
             after == get_graph(graphs', g)
         IN /\ after # None
            /\ IsPrefix(before, after.v.parameters)
            /\ Len(after.v.parameters) <= Len(before) + 1]_vars

\* C12 witness: a graph whose list has grown twice, and has since seen an
\* Apply over both parameters allocated, set as its return node, and a
\* flag set.
ParametersAppendOnlyWitness ==
    \E g \in GraphHandles :
        /\ Len(issuedNodes) = 3
        /\ get_graph(graphs, g).v.parameters
             = <<issuedNodes[1].ptr, issuedNodes[2].ptr>>
        /\ issuedNodes[3].node
             = ANFNode(Apply(g, <<issuedNodes[2].ptr, issuedNodes[1].ptr>>))
        /\ get_graph(graphs, g).v.return_ = Some(issuedNodes[3].ptr)
        /\ get_graph(graphs, g).v.flags # {}

\* C13  Node immutability: no step of any operation, the reads included,
\* changes what a node handle dereferences to (kind, owner graph, operand
\* list, constant value), and every Apply returned so far holds the operand
\* list it was created with.
NodeImmutability ==
    [][/\ \A n \in ArenaIndices(all_nodes) :
            get_node(all_nodes', n) = get_node(all_nodes, n)
       /\ \A e \in Range(issuedNodes') :
            e.by = "alloc_apply" =>
              /\ get_node(all_nodes', e.ptr) # None
              /\ get_node(all_nodes', e.ptr).v.node.tag = "Apply"
              /\ get_node(all_nodes', e.ptr).v.node.inps = e.node.node.inps]_vars

\* C13 witness: an Apply over a parameter, taken twice, that has since been
\* set as its graph's return node and is now being read by incoming().
NodeImmutabilityWitness ==
    /\ Len(issuedNodes) = 2
    /\ issuedNodes[1].by = "alloc_param"
    /\ issuedNodes[2].by = "alloc_apply"
    /\ issuedNodes[2].node.node.inps = <<issuedNodes[1].ptr, issuedNodes[1].ptr>>
    /\ calls[issuedNodes[2].node.node.graph].set_output
         = Some(issuedNodes[2].ptr)
    /\ pc = "use_node"
    /\ frame.op = "incoming"
    /\ frame.self = issuedNodes[2].ptr

\* What a step keeps and adds.
GraphsKept ==
    \A h \in ArenaIndices(graphs) : get_graph(graphs', h) = get_graph(graphs, h)
NodesKept ==
    \A n \in ArenaIndices(all_nodes) :
        get_node(all_nodes', n) = get_node(all_nodes, n)
GraphsAdded == ArenaIndices(graphs') \ ArenaIndices(graphs)
NodesAdded == ArenaIndices(all_nodes') \ ArenaIndices(all_nodes)

\* A step that changes at most the named field of existing graphs, and
\* that one only in a graph the call history changed for.
OnlyField(field) ==
    \A h \in ArenaIndices(graphs) :
        LET before == get_graph(graphs, h).v
            after == get_graph(graphs', h)
        IN /\ after # None
           /\ \A f \in {"parameters", "return_", "flags"} \ {field} :
                after.v[f] = before[f]
           /\ calls'[h] = calls[h] => after.v = before

\* C14  The frame of each mutating operation: every step keeps all
\* existing nodes and the root set; new_graph adds one empty graph and
\* nothing else; apply, constant and the manager's allocations add one node
\* and change no graph; add_parameter adds one node and appends it to the
\* list of the graph it was called on, changing nothing else; set_output
\* changes at most the return slot, and set_flag the flag set, of the graph
\* it was called on, and neither adds a node.
OperationFrames ==
    [][/\ NodesKept
       /\ roots' = roots
       /\ NewGraph(MaxGraphs) =>
            /\ GraphsKept
            /\ NodesAdded = {}
            /\ Cardinality(GraphsAdded) = 1
            /\ \A h \in GraphsAdded :
                 get_graph(graphs', h) = Some(Graph(<<>>, None, {}))
       /\ (\/ AllocApply(MaxNodes) \/ AllocParam(MaxNodes)
           \/ AllocConstant(MaxNodes)
           \/ ApplyOp(MaxNodes) \/ ConstantOp(MaxNodes)) =>
            /\ GraphsKept
            /\ GraphsAdded = {}
            /\ Cardinality(NodesAdded) = 1
       /\ AddParameter(MaxNodes) =>
            /\ OnlyField("parameters")
            /\ GraphsAdded = {}
            /\ Len(issuedNodes') = Len(issuedNodes) + 1
            /\ NodesAdded = {Last(issuedNodes').ptr}
            /\ LET g == Last(issuedNodes').node.node.graph
               IN get_graph(graphs', g).v.parameters
                    = Append(get_graph(graphs, g).v.parameters,
                             Last(issuedNodes').ptr)
       /\ SetOutput(FALSE) =>
            /\ OnlyField("return_")
            /\ GraphsAdded = {}
            /\ NodesAdded = {}
       /\ SetFlag(OneFlag, FALSE) =>
            /\ OnlyField("flags")
            /\ GraphsAdded = {}
            /\ NodesAdded = {}]_vars

\* C14 witness: every operation has acted on or through the first graph
\* (a parameter, a constant of the second graph, an Apply over both, a
\* return node and a flag), and the second graph is as new_graph made it.
OperationFramesWitness ==
    /\ Len(issuedGraphs) = 2
    /\ Len(issuedNodes) = 3
    /\ issuedNodes[2].node = ANFNode(Constant(ValueGraph(issuedGraphs[2])))
    /\ issuedNodes[3].node
         = ANFNode(Apply(issuedGraphs[1],
                         <<issuedNodes[2].ptr, issuedNodes[1].ptr>>))
    /\ get_graph(graphs, issuedGraphs[1])
         = Some(Graph(<<issuedNodes[1].ptr>>, Some(issuedNodes[3].ptr),
                      {"f1"}))
    /\ get_graph(graphs, issuedGraphs[2]) = Some(Graph(<<>>, None, {}))
    /\ roots = {}

\* C15  Iterator snapshots are independent: no step changes the operands
\* an iterator holds; a step that moves one iterator leaves every other
\* iterator, and the manager, as they were; a step that changes the manager
\* moves no iterator; and every iterator, whatever was done since its
\* incoming(), holds the operand list its node was created with, has
\* yielded a prefix of it as long as its position, and the whole of it once
\* it has returned None.
SnapshotsIndependent ==
    [][/\ \A j \in DOMAIN iters :
            /\ iters'[j].it.vals = iters[j].it.vals
            /\ iters'[j].it # iters[j].it =>
                 /\ manager' = manager
                 /\ \A k \in DOMAIN iters \ {j} : iters'[k] = iters[k]
       /\ \A j \in DOMAIN iters' :
            /\ iters'[j].it.vals = OperandsGiven(iters[j].node)'
            /\ IsPrefix(iters'[j].out, iters'[j].it.vals)
            /\ ~iters'[j].ended => Len(iters'[j].out) = iters'[j].it.p
            /\ iters'[j].ended => iters'[j].out = iters'[j].it.vals]_vars

\* C15 witness: two iterators over one Apply of a parameter twice, taken before
\* the third node was allocated; since then that node was allocated and
\* set as the return node, the first iterator has run to its end and
\* yielded both operands, and the second has yielded the first operand only.
SnapshotsWitness ==
    /\ Len(issuedNodes) = 3
    /\ Len(iters) = 2
    /\ issuedNodes[2].by = "alloc_apply"
    /\ issuedNodes[2].node.node.inps = <<issuedNodes[1].ptr, issuedNodes[1].ptr>>
    /\ \A i \in DOMAIN iters :
         iters[i].node = issuedNodes[2].ptr /\ iters[i].born = 2
    /\ get_output(graphs, issuedGraphs[1]) = Some(issuedNodes[3].ptr)
    /\ has_flag(graphs, issuedGraphs[1], "f1") = TRUE
    /\ iters[1].ended
    /\ iters[1].out = <<issuedNodes[1].ptr, issuedNodes[1].ptr>>
    /\ ~iters[2].ended
    /\ iters[2].out = <<issuedNodes[1].ptr>>

\* C16  Parameter lists are well-formed: every handle in a graph's
\* parameter list refers to a Parameter node owned by that graph, no handle
\* occurs twice in a list, and none occurs in the lists of two graphs.
ParametersWellFormed ==
    \A g \in ArenaIndices(graphs) :
        LET ps == get_graph(graphs, g).v.parameters
        IN /\ \A i \in DOMAIN ps :
                /\ get_node(all_nodes, ps[i]) = Some(ANFNode(Parameter(g)))
                /\ is_parameter(all_nodes, ps[i]) = TRUE
                /\ \A j \in DOMAIN ps : ps[i] = ps[j] => i = j
           /\ \A h \in ArenaIndices(graphs) \ {g} :
                Range(ps) \cap Range(get_graph(graphs, h).v.parameters) = {}

\* C16 witness: two graphs with a parameter each in their lists, and a
\* Parameter owned by the first graph, made by alloc_param, in no list.
ParametersWellFormedWitness ==
    /\ Len(issuedGraphs) = 2
    /\ Len(issuedNodes) = 3
    /\ get_graph(graphs, issuedGraphs[1]).v.parameters = <<issuedNodes[1].ptr>>
    /\ get_graph(graphs, issuedGraphs[2]).v.parameters = <<issuedNodes[3].ptr>>
    /\ get_node(all_nodes, issuedNodes[2].ptr)
         = Some(ANFNode(Parameter(issuedGraphs[1])))

\* C17  An exhausted iterator stays exhausted: every iterator yields its
\* operands in order and then None; once it has returned None its position
\* stays past the operands (it never wraps back into 0..n), every later
\* next() returns None again, and none aborts on the overflow of p.
ExhaustedStaysExhausted ==
    /\ panic # "overflow"
    /\ \A i \in DOMAIN iters :
         /\ IsPrefix(iters[i].out, iters[i].it.vals)
         /\ iters[i].ended =>
              /\ iters[i].out = iters[i].it.vals
              /\ iters[i].it.p > Len(iters[i].it.vals)
              /\ ~iters[i].late

\* C17: an iterator over two operands that returned both, then None, and
\* after its position wrapped has yielded an operand again.
ExhaustedYieldsAgain ==
    \E i \in DOMAIN iters :
        /\ Len(iters[i].it.vals) = MaxOperands
        /\ iters[i].out = iters[i].it.vals
        /\ iters[i].ended
        /\ iters[i].late
        /\ ~overflow_checks

=============================================================================
